---- MODULE Spec2Model ----
(***************************************************************************)
(* Job orchestration of the certificate sender: the create-job handlers of *)
(* main.py, the StorageManager of storage.py (active-job registry, job     *)
(* status tracker, summary files) and the background runner                *)
(* process_certificates_job of services.py.                                *)
(*                                                                         *)
(* The handlers are `async def` coroutines without an await, so the event  *)
(* loop runs one handler from start to end before the next; the runners    *)
(* are plain functions that Starlette runs in worker threads, so they      *)
(* interleave with the handler and with each other between any two         *)
(* StorageManager calls (each call takes and releases storage._lock).      *)
(***************************************************************************)
EXTENDS Integers, Sequences, FiniteSets, TLC

\* ------------------------------------------------------------------ bounds
MaxJobs == 2        \* jobs created in one behaviour of Spec
RaceJobs == 3       \* jobs created in one behaviour of SpecRace
MaxMembers == 1     \* longest member list of a request
MaxCount == 1       \* highest value direct update_job_status calls raise a counter to

\* ------------------------------------------------------------------ inputs
\* Event names are sequences of characters.
EventNames == { <<"A">> }

\* The members a request can name, in request order.
Roster == << "m1", "m2", "m3", "m4" >>

Member(n) == [name |-> n, gender |-> "male"]

MemberLists == { [i \in 1..n |-> Member(Roster[i])] : n \in 0..MaxMembers }

Endpoints == { "certificates", "certificates_test" }

\* Optional values: None, or Some(v).
None == << >>

Some(v) == << v >>

\* ------------------------------------------------------------------ state
VARIABLES
    active_jobs,   \* storage._active_jobs: registry key -> job id
    job_status,    \* storage._job_status: job id -> status dict
    disk,          \* summary.json by folder name
    now,           \* the second time.time() gave at its last reading
    next_uuid,     \* the next uuid4 value
    handler,       \* the request the event loop is handling and its answer, or idle
    tasks,         \* one frame of process_certificates_job per admitted job
    lock,          \* storage._lock: the thread inside a `with self._lock:` block, or None
    call           \* the last direct call of a function, with its arguments and result

vars == << active_jobs, job_status, disk, now, next_uuid, handler, tasks, lock, call >>

JobIds == 1..RaceJobs

\* A datetime.utcnow() value; nothing in the modelled code compares two of them.
utcnow == "utcnow"

\* ------------------------------------------------------------ dictionaries
EmptyDict == [k \in {} |-> 0]

DictSet(d, k, v) == [x \in DOMAIN d \cup {k} |-> IF x = k THEN v ELSE d[x]]

DictPop(d, k) == [x \in DOMAIN d \ {k} |-> d[x]]

DictGet(d, k) == IF k \in DOMAIN d THEN Some(d[k]) ELSE None

\* ------------------------------------------------------------- storage.py
WordChars == { "A", "B", "E", "S", "T", "_" }

SpaceChars == { " " }

SafeChar(c) == c \in WordChars \cup SpaceChars \cup { "-" }

RECURSIVE LStrip(_)
LStrip(s) == IF s # << >> /\ Head(s) \in SpaceChars THEN LStrip(Tail(s)) ELSE s

RECURSIVE RStrip(_)
RStrip(s) ==
    IF s # << >> /\ s[Len(s)] \in SpaceChars THEN RStrip(SubSeq(s, 1, Len(s) - 1)) ELSE s

Strip(s) == RStrip(LStrip(s))

\* re.sub(r"<run of chars of set cs>", "-", s)
RECURSIVE SubRuns(_, _)
SubRuns(s, cs) ==
    IF s = << >> THEN << >>
    ELSE IF Head(s) \in cs
         THEN IF Tail(s) # << >> /\ Head(Tail(s)) \in cs
              THEN SubRuns(Tail(s), cs)
              ELSE << "-" >> \o SubRuns(Tail(s), cs)
         ELSE << Head(s) >> \o SubRuns(Tail(s), cs)

MaxFolderStem == 50

\* sanitize_event_name: the folder name is the pair (stem, timestamp), which
\* stands for the string f"{stem}-{timestamp}".
sanitize_event_name(event_name, timestamp) ==
    LET kept      == SelectSeq(event_name, SafeChar)
        hyphened  == SubRuns(Strip(kept), SpaceChars)
        collapsed == SubRuns(hyphened, { "-" })
        limited   == IF Len(collapsed) > MaxFolderStem
                     THEN SubSeq(collapsed, 1, MaxFolderStem) ELSE collapsed
    IN  << limited, timestamp >>

\* is_event_processing that looks for any registered job, whatever its event name.
is_event_processing_any_event(event_name) == active_jobs # EmptyDict

is_event_processing(event_name) == event_name \in DOMAIN active_jobs

get_active_job_id(event_name) == DictGet(active_jobs, event_name)

mark_event_processing(aj, event_name, job_id) == DictSet(aj, event_name, job_id)

mark_event_completed(aj, event_name) == DictPop(aj, event_name)

create_job_folder(event_name, job_id, timestamp) == sanitize_event_name(event_name, timestamp)

initialize_job_status(js, job_id, event_name, folder_name, total_members) ==
    DictSet(js, job_id,
            [ job_id     |-> job_id,
              event_name |-> event_name,
              folder_name |-> folder_name,
              status     |-> "pending",
              progress   |-> [ total |-> total_members, completed |-> 0,
                               successful |-> 0, failed |-> 0 ],
              created_at |-> utcnow ])

Inc(flag) == IF flag THEN 1 ELSE 0

\* update_job_status that makes an entry for a job id the tracker does not hold.
update_job_status_creates_entry(js, job_id, status, increment_completed, increment_successful, increment_failed) ==
    DictSet(js, job_id,
            [ job_id |-> job_id, event_name |-> << >>, folder_name |-> << >>,
              status |-> IF status # None THEN status[1] ELSE "pending",
              progress |-> [ total |-> 0, completed |-> Inc(increment_completed),
                             successful |-> Inc(increment_successful),
                             failed |-> Inc(increment_failed) ],
              created_at |-> utcnow ])

\* update_job_status without the `if status:` test: the status is stored on every call.
update_job_status_stores_any_status(js, job_id, status, increment_completed, increment_successful, increment_failed) ==
    IF job_id \notin DOMAIN js THEN js
    ELSE LET job == js[job_id]
             p   == job.progress
         IN  [ js EXCEPT ![job_id] =
                 [ job EXCEPT
                     !.status = IF status # None THEN status[1] ELSE "None",
                     !.progress =
                         [ total      |-> p.total,
                           completed  |-> p.completed + Inc(increment_completed),
                           successful |-> p.successful + Inc(increment_successful),
                           failed     |-> p.failed + Inc(increment_failed) ] ] ]

update_job_status(js, job_id, status, increment_completed, increment_successful, increment_failed) ==
    IF job_id \notin DOMAIN js THEN js
    ELSE LET job == js[job_id]
             p   == job.progress
         IN  [ js EXCEPT ![job_id] =
                 [ job EXCEPT
                     !.status = IF status # None THEN status[1] ELSE @,
                     !.progress =
                         [ total      |-> p.total,
                           completed  |-> p.completed + Inc(increment_completed),
                           successful |-> p.successful + Inc(increment_successful),
                           failed     |-> p.failed + Inc(increment_failed) ] ] ]

get_job_status(job_id) == DictGet(job_status, job_id)

\* The parameters of write_summary (self left out) and the ones with no default.
write_summary_parameters ==
    { "folder_name", "job_id", "event_name", "date", "official", "members",
      "status", "created_at", "completed_at" }

write_summary_required == write_summary_parameters \ { "completed_at" }

\* Python raises TypeError when a call names a keyword the function does not
\* have, or leaves out a parameter that has no default.
write_summary_raises(keywords) ==
    \/ ~(keywords \subseteq write_summary_parameters)
    \/ ~(write_summary_required \subseteq keywords)

CountStatus(members, st) == Cardinality({ k \in DOMAIN members : members[k].status = st })

write_summary(d, folder_name, job_id, event_name, members, status, created_at, completed_at) ==
    DictSet(d, folder_name,
            [ job_id        |-> job_id,
              event_name    |-> event_name,
              folder_name   |-> folder_name,
              created_at    |-> created_at,
              completed_at  |-> completed_at,
              status        |-> status,
              total_members |-> Len(members),
              successful    |-> CountStatus(members, "sent"),
              failed        |-> CountStatus(members, "failed"),
              members       |-> members ])

\* The content of a summary.json that json.load cannot parse (a file cut short).
Malformed == [ malformed |-> TRUE ]

\* What a call gives: a returned value, or the exception it raises.
Returned(value) == [ raised |-> "", value |-> value ]

Raised(exception) == [ raised |-> exception, value |-> None ]

\* The fields of JobSummary (models.py) and the ones with no default.
JobSummary_fields ==
    { "job_id", "event_name", "announced_name", "folder_name", "date", "official",
      "created_at", "completed_at", "status", "total_members", "successful", "failed",
      "members" }

JobSummary_required == JobSummary_fields \ { "completed_at" }

\* The keywords of the JobSummary(...) call of read_summary.
read_summary_keywords ==
    { "job_id", "event_name", "folder_name", "date", "official", "created_at",
      "completed_at", "status", "total_members", "successful", "failed", "members" }

\* pydantic raises ValidationError when a required field is not given.
JobSummary_raises(keywords) == ~(JobSummary_required \subseteq keywords)

\* Lines 182-195: the MemberResult objects of the parsed member list
read_members(members) ==
    [ k \in DOMAIN members |->
        [ name |-> members[k].name, gender |-> members[k].gender,
          status |-> members[k].status, sent_at |-> members[k].sent_at,
          certificate_url |-> members[k].certificate_url, error |-> members[k].error ] ]

\* read_summary: None when the file is absent; json.load and JobSummary(...) are not
\* inside a try, so what they raise leaves read_summary.
read_summary(folder_name) ==
    IF folder_name \notin DOMAIN disk THEN Returned(None)
    ELSE IF disk[folder_name] = Malformed THEN Raised("JSONDecodeError")
    ELSE IF JobSummary_raises(read_summary_keywords) THEN Raised("ValidationError")
    ELSE LET data == disk[folder_name]
         IN  Returned(Some([ job_id        |-> data.job_id,
                             event_name    |-> data.event_name,
                             folder_name   |-> data.folder_name,
                             created_at    |-> data.created_at,
                             completed_at  |-> data.completed_at,
                             status        |-> data.status,
                             total_members |-> data.total_members,
                             successful    |-> data.successful,
                             failed        |-> data.failed,
                             members       |-> read_members(data.members) ]))

\* get_folder_by_job_id that scans the folders before it looks at the tracker.
get_folder_by_job_id_scans_first(job_id) ==
    LET found == { f \in DOMAIN disk : disk[f] # Malformed /\ disk[f].job_id = job_id }
    IN  IF found # {} THEN { Some(f) : f \in found }
        ELSE IF job_id \in DOMAIN job_status THEN { Some(job_status[job_id].folder_name) }
        ELSE { None }

\* get_folder_by_job_id: the values it can return. The tracker's folder name when the
\* tracker holds the job; else the name of a folder whose summary parses and carries
\* the job id (iterdir gives the folders in no fixed order), None when there is none.
get_folder_by_job_id(job_id) ==
    IF job_id \in DOMAIN job_status THEN { Some(job_status[job_id].folder_name) }
    ELSE LET found == { f \in DOMAIN disk :
                          disk[f] # Malformed /\ disk[f].job_id = job_id }
         IN  IF found = {} THEN { None } ELSE { Some(f) : f \in found }

\* The fields of EventListItem (models.py), all without a default, and the keywords of
\* the EventListItem(...) call of list_all_summaries.
EventListItem_fields ==
    { "folder_name", "event_name", "announced_name", "date", "created_at", "status",
      "total_members", "successful", "failed" }

list_all_keywords ==
    { "folder_name", "event_name", "date", "created_at", "status", "total_members",
      "successful", "failed" }

EventListItem_raises(keywords) == ~(EventListItem_fields \subseteq keywords)

EventListItem(data) ==
    [ folder_name |-> data.folder_name, event_name |-> data.event_name,
      created_at |-> data.created_at, status |-> data.status,
      total_members |-> data.total_members, successful |-> data.successful,
      failed |-> data.failed ]

\* events.sort(key=lambda x: x.created_at, reverse=True)
RECURSIVE SortNewestFirst(_)
SortNewestFirst(events) ==
    IF events = {} THEN << >>
    ELSE LET newest == CHOOSE e \in events : \A o \in events : e.created_at >= o.created_at
         IN  << newest >> \o SortNewestFirst(events \ { newest })

\* list_all_summaries: a folder whose summary.json does not parse is skipped
\* (JSONDecodeError is caught); the ValidationError of EventListItem(...) is not among
\* the caught exceptions and leaves the function.
list_all_summaries ==
    LET parsed == { f \in DOMAIN disk : disk[f] # Malformed }
    IN  IF parsed # {} /\ EventListItem_raises(list_all_keywords)
        THEN Raised("ValidationError")
        ELSE Returned(SortNewestFirst({ EventListItem(disk[f]) : f \in parsed }))

\* ---------------------------------------------------------------- main.py
TEST_RECIPIENTS == << Member("t0"), Member("t1"), Member("t2") >>

TestPrefix == << "[", "T", "E", "S", "T", "]", " " >>

\* check_members_not_empty without its `if not v` test.
check_members_accepts_empty(v) == TRUE

\* CertificateRequest.check_members_not_empty
check_members_not_empty(v) == v # << >>

\* final_members with the three test recipients in front of the request's members.
final_members_tests_first(members) == TEST_RECIPIENTS \o members

\* create_test_certificates: the member list the test job runs over
final_members(members) ==
    LET mid_index == IF members # << >> THEN Len(members) \div 2 ELSE 0
    IN  << TEST_RECIPIENTS[1] >>
        \o SubSeq(members, 1, mid_index)
        \o << TEST_RECIPIENTS[2] >>
        \o SubSeq(members, mid_index + 1, Len(members))
        \o << TEST_RECIPIENTS[3] >>

\* create_test_certificates: test_event_name
test_event_name(event_name) == TestPrefix \o event_name

\* The event name a handler checks and registers.
registry_key(endpoint, event_name) ==
    IF endpoint = "certificates_test" THEN test_event_name(event_name) ELSE event_name

\* The member list a handler hands to the runner.
job_members(endpoint, members) ==
    IF endpoint = "certificates_test" THEN final_members(members) ELSE members

\* The event_name argument of add_task(process_certificates_job, ...).
task_event_name(endpoint, event_name) == event_name

IdleHandler ==
    [ pc |-> "idle", endpoint |-> "", event_name |-> << >>, key |-> << >>,
      members |-> << >>, job_id |-> 0, folder_name |-> << >>, code |-> 0,
      active_job_id |-> None, query_job |-> None, query_folder |-> None,
      response |-> None ]

\* Request validation fails: the answer is 422, the handler body does not run.
ValidationError(endpoint, event_name, members) ==
    /\ handler.pc = "idle"
    /\ ~check_members_not_empty(members)
    /\ handler' = [ IdleHandler EXCEPT !.pc = "answered", !.endpoint = endpoint,
                                       !.event_name = event_name, !.code = 422 ]
    /\ UNCHANGED << active_jobs, job_status, disk, now, next_uuid, tasks, lock, call >>

\* The handler starts: storage.is_event_processing(...)
CheckEvent(endpoint, event_name, members) ==
    /\ handler.pc = "idle"
    /\ check_members_not_empty(members)
    /\ LET key == registry_key(endpoint, event_name)
       IN  handler' = [ IdleHandler EXCEPT
                          !.pc = IF is_event_processing(key) THEN "conflict" ELSE "create",
                          !.endpoint = endpoint,
                          !.event_name = event_name,
                          !.key = key,
                          !.members = job_members(endpoint, members) ]
    /\ UNCHANGED << active_jobs, job_status, disk, now, next_uuid, tasks, lock, call >>

\* storage.get_active_job_id(...), raise HTTPException(409)
Conflict ==
    /\ handler.pc = "conflict"
    /\ handler' = [ handler EXCEPT !.pc = "answered", !.code = 409,
                                   !.active_job_id = get_active_job_id(handler.key) ]
    /\ UNCHANGED << active_jobs, job_status, disk, now, next_uuid, tasks, lock, call >>

\* uuid4, storage.create_job_folder(...), storage.mark_event_processing(...);
\* time.time() reads the second of the last reading or a later one.
CreateJob ==
    /\ handler.pc = "create"
    /\ \E timestamp \in { now, now + 1 } :
         LET job_id == next_uuid
         IN  /\ handler' = [ handler EXCEPT
                               !.pc = "init",
                               !.job_id = job_id,
                               !.folder_name = create_job_folder(handler.key, job_id,
                                                                 timestamp) ]
             /\ active_jobs' = mark_event_processing(active_jobs, handler.key, job_id)
             /\ now' = timestamp
    /\ next_uuid' = next_uuid + 1
    /\ UNCHANGED << job_status, disk, tasks, lock, call >>

NewTask(job_id, event_name, members, folder_name) ==
    [ pc |-> "queued", job_id |-> job_id, event_name |-> event_name,
      members |-> members, folder_name |-> folder_name, created_at |-> "",
      member_results |-> << >>, i |-> 1, final_status |-> "", completed_at |-> "",
      raised_at |-> "", result |-> None ]

\* storage.initialize_job_status(...), background_tasks.add_task(...), return (202)
InitJob ==
    /\ handler.pc = "init"
    /\ job_status' = initialize_job_status(job_status, handler.job_id, handler.key,
                                           handler.folder_name, Len(handler.members))
    /\ tasks' = DictSet(tasks, handler.job_id,
                        NewTask(handler.job_id,
                                task_event_name(handler.endpoint, handler.event_name),
                                handler.members, handler.folder_name))
    /\ handler' = [ handler EXCEPT !.pc = "answered", !.code = 202 ]
    /\ UNCHANGED << active_jobs, disk, now, next_uuid, lock, call >>

\* The answer goes out; the event loop is free for the next request, and the
\* background task of an admitted job may start.
Answer ==
    /\ handler.pc = "answered"
    /\ handler' = IdleHandler
    /\ UNCHANGED << active_jobs, job_status, disk, now, next_uuid, tasks, lock, call >>

\* ------------------------------------------------------------ services.py
\* settings.max_retries
MAX_RETRIES == 3

\* What one SMTP attempt gives: the message is sent, or an exception with a text.
SmtpOutcomes == { "sent", "refused" }

\* The files send_email opens: both there, or one of them missing.
MailFiles == { "present", "no_template", "no_pdf" }

\* Lines 160-177: the attempts from number `attempt` (0-based) on. `sleeps` counts the
\* time.sleep(email_delay) calls, `attempts` the SMTP attempts made.
RECURSIVE smtp_attempts(_, _, _, _)
smtp_attempts(attempt, outcomes, error_msg, sleeps) ==
    IF attempt >= MAX_RETRIES
    THEN [ success |-> FALSE,
           error |-> Some(<< "Failed after attempts", MAX_RETRIES, error_msg >>),
           attempts |-> attempt, sleeps |-> sleeps ]
    ELSE IF outcomes[attempt + 1] = "sent"
         THEN [ success |-> TRUE, error |-> None, attempts |-> attempt + 1,
                sleeps |-> sleeps ]
         ELSE smtp_attempts(attempt + 1, outcomes, outcomes[attempt + 1],
                            IF attempt < MAX_RETRIES - 1 THEN sleeps + 1 ELSE sleeps)

\* send_email without the FileNotFoundError branch of lines 131-134.
send_email_without_file_check(files, outcomes) ==
    smtp_attempts(0, outcomes, "Unknown error", 0)

\* send_email: outcomes[k] is what the k-th SMTP attempt gives, if it is made.
send_email(files, outcomes) ==
    IF files # "present"
    THEN [ success |-> FALSE, error |-> Some(<< "File not found", 0, files >>),
           attempts |-> 0, sleeps |-> 0 ]
    ELSE smtp_attempts(0, outcomes, "Unknown error", 0)

\* The keywords of the two storage.write_summary(...) calls.
member_write_keywords ==
    { "folder_name", "job_id", "event_name", "announced_name", "date", "official",
      "members", "status", "created_at" }

final_write_keywords == member_write_keywords \cup { "completed_at" }

\* Lines 308-319: the values the call after a member hands to write_summary
member_write_arguments(t) ==
    [ folder_name  |-> t.folder_name,
      job_id       |-> t.job_id,
      event_name   |-> t.event_name,
      members      |-> t.member_results,
      status       |-> "processing",
      created_at   |-> t.created_at,
      completed_at |-> None ]

\* final_write_arguments with completed_at left to its default.
final_write_arguments_without_completed_at(t) ==
    [ member_write_arguments(t) EXCEPT !.status = t.final_status ]

\* Lines 332-344: the values the final call hands to write_summary
final_write_arguments(t) ==
    [ member_write_arguments(t) EXCEPT !.status = t.final_status,
                                       !.completed_at = Some(t.completed_at) ]

\* write_summary(**arguments)
write_summary_call(d, arguments) ==
    write_summary(d, arguments.folder_name, arguments.job_id, arguments.event_name,
                  arguments.members, arguments.status, arguments.created_at,
                  arguments.completed_at)

PendingResult(member) ==
    [ name |-> member.name, gender |-> member.gender, status |-> "pending",
      sent_at |-> None, certificate_url |-> None, error |-> None ]

\* f"/certificates/{folder_name}/{pdf_path.name}"
certificate_url(folder_name, member) == << "certificates", folder_name, member.name >>

\* Lines 258-259: the converter returned None
ConversionFailed(result) ==
    [ result EXCEPT !.status = "failed", !.error = Some("PDF conversion failed") ]

\* Lines 278-280: the mailer returned (True, None)
Sent(result, url) ==
    [ result EXCEPT !.status = "sent", !.sent_at = Some(utcnow), !.certificate_url = Some(url) ]

\* SendFailed with line 289 (the certificate_url assignment) left out.
SendFailed_without_url(result, url, error) ==
    [ result EXCEPT !.status = "failed", !.error = Some(error) ]

\* Lines 287-289: the mailer returned (False, error)
SendFailed(result, url, error) ==
    [ result EXCEPT !.status = "failed", !.error = Some(error),
                    !.certificate_url = Some(url) ]

\* Excepted with line 298 (the status assignment) left out.
Excepted_keeps_pending(result, error) == [ result EXCEPT !.error = Some(error) ]

\* Lines 296-299: one of the three calls raised
Excepted(result, error) ==
    [ result EXCEPT !.status = "failed", !.error = Some(error) ]

\* Lines 321-327: the job's final status
final_status(member_results) ==
    IF \A k \in DOMAIN member_results : member_results[k].status = "failed"
    THEN "failed" ELSE "completed"

\* NextMember when the loop does not move on to the next member.
NextMember_same_member(t) == [ t EXCEPT !.pc = "render" ]

\* The loop head after member i: the next member, or finalization.
NextMember(t) ==
    [ t EXCEPT !.i = t.i + 1,
               !.pc = IF t.i + 1 <= Len(t.members) THEN "render" ELSE "finalize" ]

\* The runner has returned or raised: its frame and locals are gone.
Exited(t, pc, raised_at) ==
    [ NewTask(t.job_id, << >>, << >>, << >>) EXCEPT !.pc = pc, !.raised_at = raised_at ]

Running(j, pc) == j \in DOMAIN tasks /\ tasks[j].pc = pc

\* storage.update_job_status(job_id, increment_completed=True, increment_successful or
\* increment_failed=True) for the member's result
\* CountMember with increment_failed left out of the call.
CountMember_without_failed(js, job_id, result) ==
    update_job_status(js, job_id, None, TRUE, result.status = "sent", FALSE)

CountMember(js, job_id, result) ==
    update_job_status(js, job_id, None, TRUE, result.status = "sent", result.status = "failed")

\* Appended with member_results.insert(0, result) in place of append.
Appended_at_front(t, result) == [ t EXCEPT !.member_results = << result >> \o @, !.pc = "write" ]

\* Line 306, after the increments: member_results.append(result), on to the summary write
Appended(t, result) == [ t EXCEPT !.member_results = Append(@, result), !.pc = "write" ]

\* Continued with line 265 (the append) left out.
Continued_without_append(t, result) == NextMember(t)

\* Lines 260-266: member_results.append(result); continue
Continued(t, result) == NextMember([ t EXCEPT !.member_results = Append(@, result) ])

\* Lines 224-232: the runner starts, after the answer to its request went out
StartJob(j) ==
    /\ Running(j, "queued")
    /\ ~(handler.pc = "answered" /\ handler.job_id = j)
    /\ job_status' = update_job_status(job_status, j, Some("processing"), FALSE, FALSE, FALSE)
    /\ tasks' = [ tasks EXCEPT ![j] =
                    [ @ EXCEPT !.created_at = utcnow,
                               !.pc = IF tasks[j].members # << >> THEN "render"
                                                                 ELSE "finalize" ] ]
    /\ UNCHANGED << active_jobs, disk, now, next_uuid, handler, lock, call >>

\* Lines 237-252 (296-306 when it raises): service.replace_placeholder(...); what the step does to the
\* runner and the tracker
RenderStep(j) ==
    /\ Running(j, "render")
    /\ LET t == tasks[j]
           result == PendingResult(t.members[t.i])
       IN  \E outcome \in { "pptx", "raise" } :
             IF outcome = "pptx"
             THEN /\ tasks' = [ tasks EXCEPT ![j] = [ t EXCEPT !.pc = "convert" ] ]
                  /\ job_status' = job_status
             ELSE LET failed == Excepted(result, "str(e)")
                  IN  /\ tasks' = [ tasks EXCEPT ![j] = Appended(t, failed) ]
                      /\ job_status' = CountMember(job_status, j, failed)
    /\ UNCHANGED << active_jobs, disk, now, next_uuid, lock, call >>

Render(j) == RenderStep(j) /\ UNCHANGED handler

\* Lines 255-266 (296-306 when it raises): service.pptx_to_pdf(...); what the step does to the
\* runner and the tracker
ConvertStep(j) ==
    /\ Running(j, "convert")
    /\ LET t == tasks[j]
           result == PendingResult(t.members[t.i])
       IN  \E outcome \in { "pdf", "none", "raise" } :
             CASE outcome = "pdf" ->
                    /\ tasks' = [ tasks EXCEPT ![j] = [ t EXCEPT !.pc = "send" ] ]
                    /\ job_status' = job_status
               [] outcome = "none" ->
                    LET failed == ConversionFailed(result)
                    IN  /\ tasks' = [ tasks EXCEPT ![j] = Continued(t, failed) ]
                        /\ job_status' = CountMember(job_status, j, failed)
               [] OTHER ->
                    LET failed == Excepted(result, "str(e)")
                    IN  /\ tasks' = [ tasks EXCEPT ![j] = Appended(t, failed) ]
                        /\ job_status' = CountMember(job_status, j, failed)
    /\ UNCHANGED << active_jobs, disk, now, next_uuid, lock, call >>

Convert(j) == ConvertStep(j) /\ UNCHANGED handler

\* Lines 269-306: service.send_email(...); what the step does to the
\* runner and the tracker
SendStep(j) ==
    /\ Running(j, "send")
    /\ LET t == tasks[j]
           result == PendingResult(t.members[t.i])
           url == certificate_url(t.folder_name, t.members[t.i])
       IN  \E outcome \in { "success", "failure", "raise" } :
             LET done == CASE outcome = "success" -> Sent(result, url)
                           [] outcome = "failure" -> SendFailed(result, url, "Failed after 3 attempts")
                           [] OTHER -> Excepted(result, "str(e)")
             IN  /\ tasks' = [ tasks EXCEPT ![j] = Appended(t, done) ]
                 /\ job_status' = CountMember(job_status, j, done)
    /\ UNCHANGED << active_jobs, disk, now, next_uuid, lock, call >>

Send(j) == SendStep(j) /\ UNCHANGED handler

\* Lines 308-319: storage.write_summary(...) after a member
WriteMemberSummary(j) ==
    /\ Running(j, "write")
    /\ LET t == tasks[j]
       IN  IF write_summary_raises(member_write_keywords)
           THEN /\ tasks' = [ tasks EXCEPT ![j] = Exited(t, "raised", "write") ]
                /\ disk' = disk
           ELSE /\ disk' = write_summary_call(disk, member_write_arguments(t))
                /\ tasks' = [ tasks EXCEPT ![j] = NextMember(t) ]
    /\ UNCHANGED << active_jobs, job_status, now, next_uuid, handler, lock, call >>

\* Lines 321-329: the final status goes to the tracker
Finalize(j) ==
    /\ Running(j, "finalize")
    /\ LET t == tasks[j]
           status == final_status(t.member_results)
       IN  /\ job_status' = update_job_status(job_status, j, Some(status), FALSE, FALSE, FALSE)
           /\ tasks' = [ tasks EXCEPT ![j] =
                           [ t EXCEPT !.completed_at = utcnow,
                                      !.final_status = status,
                                      !.pc = "release" ] ]
    /\ UNCHANGED << active_jobs, disk, now, next_uuid, handler, lock, call >>

\* Line 330: storage.mark_event_completed(event_name)
Release(j) ==
    /\ Running(j, "release")
    /\ active_jobs' = mark_event_completed(active_jobs, tasks[j].event_name)
    /\ tasks' = [ tasks EXCEPT ![j] = [ @ EXCEPT !.pc = "final_write" ] ]
    /\ UNCHANGED << job_status, disk, now, next_uuid, handler, lock, call >>

\* Lines 332-346: the final storage.write_summary(...)
WriteFinalSummary(j) ==
    /\ Running(j, "final_write")
    /\ LET t == tasks[j]
       IN  IF write_summary_raises(final_write_keywords)
           THEN /\ tasks' = [ tasks EXCEPT ![j] = Exited(t, "raised", "final_write") ]
                /\ disk' = disk
           ELSE /\ disk' = write_summary_call(disk, final_write_arguments(t))
                /\ tasks' = [ tasks EXCEPT ![j] = Exited(t, "done", "") ]
    /\ UNCHANGED << active_jobs, job_status, now, next_uuid, handler, lock, call >>

\* ------------------------------------------------------- main.py, queries
\* JobStatusResponse, as far as status and progress go
StatusResponse(status, progress) == [ status |-> status, progress |-> progress ]

\* The job ids a status query names: the job of an earlier process, the jobs of this
\* one, and an id no job has.
QueryIds == 0..RaceJobs

\* GET /status/{job_id} starts: storage.get_job_status(job_id) hands out the tracker's
\* own dict (no copy), or None.
QueryStatus(job_id) ==
    /\ handler.pc = "idle"
    /\ handler' = [ IdleHandler EXCEPT
                      !.pc = IF get_job_status(job_id) # None THEN "status_read"
                                                             ELSE "status_lookup",
                      !.endpoint = "status",
                      !.query_job = Some(job_id) ]
    /\ UNCHANGED << active_jobs, job_status, disk, now, next_uuid, tasks, lock, call >>

\* Lines 244-252: the answer is built from the dict as it is now.
ReadStatus ==
    /\ handler.pc = "status_read"
    /\ LET job == job_status[handler.query_job[1]]
       IN  handler' = [ handler EXCEPT
                          !.pc = "answered", !.code = 200,
                          !.response = Some(StatusResponse(job.status, job.progress)) ]
    /\ UNCHANGED << active_jobs, job_status, disk, now, next_uuid, tasks, lock, call >>

\* Lines 244-252 while the job's runner is inside update_job_status: the runner holds
\* storage._lock, the handler reads the dict without it, and the read of
\* job_status["progress"] falls between `completed += 1` and the statement that
\* raises successful or failed.
TornRead ==
    /\ handler.pc = "status_read"
    /\ LET j == handler.query_job[1]
       IN  /\ RenderStep(j) \/ ConvertStep(j) \/ SendStep(j)
           /\ job_status'[j].progress # job_status[j].progress
           /\ handler' = [ handler EXCEPT
                             !.pc = "answered", !.code = 200,
                             !.response =
                                 Some(StatusResponse(
                                     job_status[j].status,
                                     [ job_status[j].progress EXCEPT
                                         !.completed = @ + 1 ])) ]

\* Lines 218-242: the tracker does not hold the job; get_folder_by_job_id,
\* read_summary, and the answer from the summary or 404. An exception that leaves
\* the handler is answered with 500.
LookupStatus ==
    /\ handler.pc = "status_lookup"
    /\ \E folder_name \in get_folder_by_job_id(handler.query_job[1]) :
         LET summary == IF folder_name = None THEN Returned(None)
                        ELSE read_summary(folder_name[1])
         IN  handler' =
               [ handler EXCEPT
                   !.pc = "answered",
                   !.code = IF summary.raised # "" THEN 500
                            ELSE IF summary.value = None THEN 404 ELSE 200,
                   !.response =
                       IF summary.value = None THEN None
                       ELSE LET found == summary.value[1]
                            IN  Some(StatusResponse(
                                    found.status,
                                    [ total      |-> found.total_members,
                                      completed  |-> found.total_members,
                                      successful |-> found.successful,
                                      failed     |-> found.failed ])) ]
    /\ UNCHANGED << active_jobs, job_status, disk, now, next_uuid, tasks, lock, call >>

\* GET /summary/{folder_name}: storage.read_summary(folder_name); 404 when it returns
\* None, 500 when it raises.
GetSummary(folder_name) ==
    /\ handler.pc = "idle"
    /\ LET summary == read_summary(folder_name)
       IN  handler' =
             [ IdleHandler EXCEPT
                 !.pc = "answered",
                 !.endpoint = "summary",
                 !.query_folder = Some(folder_name),
                 !.code = IF summary.raised # "" THEN 500
                          ELSE IF summary.value = None THEN 404 ELSE 200,
                 !.response = summary.value ]
    /\ UNCHANGED << active_jobs, job_status, disk, now, next_uuid, tasks, lock, call >>

\* ----------------------------------------------------------- specification
\* No direct call was made.
NoCall == [ fn |-> "", args |-> << >>, result |-> << >> ]

Init ==
    /\ lock = None
    /\ call = NoCall
    /\ active_jobs = EmptyDict
    /\ job_status = EmptyDict
    /\ disk = EmptyDict
    /\ now = 0
    /\ next_uuid = 1
    /\ handler = IdleHandler
    /\ tasks = EmptyDict

\* A request to one of `endpoints` for one of the event names `names` comes in while
\* fewer than max_jobs jobs were created.
RequestAt(max_jobs, endpoints, names) ==
    /\ next_uuid <= max_jobs
    /\ \E endpoint \in endpoints, event_name \in names, members \in MemberLists :
         \/ ValidationError(endpoint, event_name, members)
         \/ CheckEvent(endpoint, event_name, members)

RequestOf(max_jobs, names) == RequestAt(max_jobs, Endpoints, names)

Request(max_jobs) == RequestOf(max_jobs, EventNames)

Step ==
    \/ Conflict
    \/ CreateJob
    \/ InitJob
    \/ Answer
    \/ \E j \in JobIds :
         \/ StartJob(j)
         \/ Render(j)
         \/ Convert(j)
         \/ Send(j)
         \/ WriteMemberSummary(j)
         \/ Finalize(j)
         \/ Release(j)
         \/ WriteFinalSummary(j)

Next == Request(MaxJobs) \/ Step

Spec == Init /\ [][Next]_vars

NextRace == Request(RaceJobs) \/ Step

SpecRace == Init /\ [][NextRace]_vars

\* Two event names that differ in a character create_job_folder drops.
CollidingNames == { << "A" >>, << "A", "?" >> }

NextNames == RequestAt(MaxJobs, { "certificates" }, CollidingNames) \/ Step

\* Requests to POST /certificates for event names with the same folder stem.
SpecNames == Init /\ [][NextNames]_vars

\* The summary folder an earlier process left in the jobs folder.
OldFolder == << << "B" >>, 0 >>

\* Its summary.json as write_summary writes it: job 0, one member, sent.
OldSummary ==
    LET sent == Sent(PendingResult(Member("m1")), certificate_url(OldFolder, Member("m1")))
    IN  write_summary(EmptyDict, OldFolder, 0, << "B" >>, << sent >>, "completed",
                      utcnow, Some(utcnow))[OldFolder]

\* The jobs folder when the process starts: empty, or with the old folder, whose
\* summary.json is whole or cut short.
StartDisks ==
    { EmptyDict, DictSet(EmptyDict, OldFolder, OldSummary),
      DictSet(EmptyDict, OldFolder, Malformed) }

InitStore ==
    /\ lock = None
    /\ call = NoCall
    /\ active_jobs = EmptyDict
    /\ job_status = EmptyDict
    /\ disk \in StartDisks
    /\ now = 0
    /\ next_uuid = 1
    /\ handler = IdleHandler
    /\ tasks = EmptyDict

\* The folders a summary query names: the old folder and the folder of a job.
QueryFolders == { OldFolder, << << "A" >>, 0 >> }

Query ==
    \/ \E job_id \in QueryIds : QueryStatus(job_id)
    \/ ReadStatus
    \/ TornRead
    \/ LookupStatus
    \/ \E folder_name \in QueryFolders : GetSummary(folder_name)

NextStore == Request(MaxJobs) \/ Step \/ Query

\* Create requests and queries, over a jobs folder that may hold an old summary.
SpecStore == InitStore /\ [][NextStore]_vars

\* process_certificates_job called with a member list of the caller's choice, the
\* empty one included, for a job the tracker was initialized for.
CallRunner(event_name, members) ==
    /\ next_uuid <= MaxJobs
    /\ LET job_id == next_uuid
           folder_name == create_job_folder(event_name, job_id, now)
       IN  /\ job_status' = initialize_job_status(job_status, job_id, event_name,
                                                  folder_name, Len(members))
           /\ tasks' = DictSet(tasks, job_id,
                               NewTask(job_id, event_name, members, folder_name))
           /\ call' = [ fn |-> "process_certificates_job",
                        args |-> << job_id, members >>, result |-> << >> ]
    /\ next_uuid' = next_uuid + 1
    /\ UNCHANGED << active_jobs, disk, now, handler, lock >>

RunnerStep ==
    \E j \in JobIds :
        \/ StartJob(j)
        \/ Render(j)
        \/ Convert(j)
        \/ Send(j)
        \/ WriteMemberSummary(j)
        \/ Finalize(j)
        \/ Release(j)
        \/ WriteFinalSummary(j)

NextRunner ==
    \/ \E event_name \in EventNames, members \in MemberLists : CallRunner(event_name, members)
    \/ RunnerStep

\* Runners started by direct calls of process_certificates_job.
SpecRunner == Init /\ [][NextRunner]_vars

\* ------------------------------------------------- the lock of the tracker
\* `with self._lock:` of a StorageManager method, entered by a thread
lock_enter(thread) == Some(thread)

\* The `with` block is left and the lock stays with the thread.
lock_exit_keeps_lock(thread) == Some(thread)

\* `with self._lock:` is left
lock_exit(thread) == None

\* An operation that takes storage._lock and gives it back within the step waits
\* while another thread is inside a `with self._lock:` block.
WithLock(operation) == lock = None /\ operation

\* The runner's calls of the renderer, the converter and the mailer return; the result
\* of a failed or sent member is held in the local `result` until it is counted.
RenderReturn(j) ==
    /\ Running(j, "render")
    /\ LET t == tasks[j]
           result == PendingResult(t.members[t.i])
       IN  \E outcome \in { "pptx", "raise" } :
             tasks' = [ tasks EXCEPT ![j] =
                          IF outcome = "pptx" THEN [ t EXCEPT !.pc = "convert" ]
                          ELSE [ t EXCEPT !.pc = "count",
                                          !.result = Some(Excepted(result, "str(e)")) ] ]
    /\ UNCHANGED << active_jobs, job_status, disk, now, next_uuid, handler, lock, call >>

ConvertReturn(j) ==
    /\ Running(j, "convert")
    /\ LET t == tasks[j]
           result == PendingResult(t.members[t.i])
       IN  \E outcome \in { "pdf", "none", "raise" } :
             tasks' = [ tasks EXCEPT ![j] =
                          CASE outcome = "pdf" -> [ t EXCEPT !.pc = "send" ]
                            [] outcome = "none" ->
                                 [ t EXCEPT !.pc = "count_continue",
                                            !.result = Some(ConversionFailed(result)) ]
                            [] OTHER ->
                                 [ t EXCEPT !.pc = "count",
                                            !.result = Some(Excepted(result, "str(e)")) ] ]
    /\ UNCHANGED << active_jobs, job_status, disk, now, next_uuid, handler, lock, call >>

SendReturn(j) ==
    /\ Running(j, "send")
    /\ LET t == tasks[j]
           result == PendingResult(t.members[t.i])
           url == certificate_url(t.folder_name, t.members[t.i])
       IN  \E outcome \in { "success", "failure", "raise" } :
             LET done == CASE outcome = "success" -> Sent(result, url)
                           [] outcome = "failure" ->
                                SendFailed(result, url, "Failed after 3 attempts")
                           [] OTHER -> Excepted(result, "str(e)")
             IN  tasks' = [ tasks EXCEPT ![j] =
                              [ t EXCEPT !.pc = "count", !.result = Some(done) ] ]
    /\ UNCHANGED << active_jobs, job_status, disk, now, next_uuid, handler, lock, call >>

\* storage.update_job_status(...) of lines 260, 281, 290 and 300: `with self._lock:`
\* is entered when no other thread holds the lock
EnterUpdate(j) ==
    /\ j \in DOMAIN tasks
    /\ tasks[j].pc \in { "count", "count_continue" }
    /\ lock = None
    /\ lock' = lock_enter(j)
    /\ UNCHANGED << active_jobs, job_status, disk, now, next_uuid, handler, tasks, call >>

\* The counters are raised, the `with` block is left, and the runner appends the
\* result (and continues with the next member after a failed conversion).
LeaveUpdate(j) ==
    /\ lock = Some(j)
    /\ LET t == tasks[j]
           counted == [ t EXCEPT !.result = None ]
       IN  /\ job_status' = CountMember(job_status, j, t.result[1])
           /\ tasks' = [ tasks EXCEPT ![j] =
                           IF t.pc = "count_continue" THEN Continued(counted, t.result[1])
                           ELSE Appended(counted, t.result[1]) ]
    /\ lock' = lock_exit(j)
    /\ UNCHANGED << active_jobs, disk, now, next_uuid, handler, call >>

NextLock ==
    \/ WithLock(RequestAt(MaxJobs, { "certificates" }, CollidingNames))
    \/ WithLock(Conflict)
    \/ WithLock(CreateJob)
    \/ WithLock(InitJob)
    \/ Answer
    \/ \E j \in JobIds :
         \/ WithLock(StartJob(j))
         \/ RenderReturn(j)
         \/ ConvertReturn(j)
         \/ SendReturn(j)
         \/ EnterUpdate(j)
         \/ LeaveUpdate(j)
         \/ WithLock(WriteMemberSummary(j))
         \/ WithLock(Finalize(j))
         \/ WithLock(Release(j))
         \/ WithLock(WriteFinalSummary(j))

\* The runs with the runner's update_job_status calls split at the lock.
SpecLock == Init /\ [][NextLock]_vars

\* ------------------------------------------------------------ direct calls
\* A second folder of an earlier process.
OlderFolder == << << "B" >>, 1 >>

\* A summary.json as write_summary writes it, of a job created at second created_at.
SummaryOf(folder_name, job_id, created_at) ==
    LET sent == Sent(PendingResult(Member("m1")), certificate_url(folder_name, Member("m1")))
    IN  write_summary(EmptyDict, folder_name, job_id, << "B" >>, << sent >>, "completed",
                      created_at, Some(created_at))[folder_name]

\* What a folder holds: no summary.json, a whole one, or one cut short.
FolderContents(folder_name, job_id, created_at) ==
    { None, Some(SummaryOf(folder_name, job_id, created_at)), Some(Malformed) }

\* The jobs folders the direct calls run over.
CallDisks ==
    { [ f \in { g \in { OldFolder, OlderFolder } :
                  (IF g = OldFolder THEN old ELSE older) # None } |->
          IF f = OldFolder THEN old[1] ELSE older[1] ] :
      old \in FolderContents(OldFolder, 0, 2), older \in FolderContents(OlderFolder, 9, 1) }

InitCalls ==
    /\ lock = None
    /\ call = NoCall
    /\ active_jobs = EmptyDict
    /\ job_status = EmptyDict
    /\ disk \in CallDisks
    /\ now = 0
    /\ next_uuid = 1
    /\ handler = IdleHandler
    /\ tasks = EmptyDict

\* The job ids direct calls name: the job of the old folder, and a job no summary names.
CallIds == { 0, 1 }

\* The job id direct calls initialize the tracker for.
TrackedIds == { 0 }

Called(fn, args, result) == [ fn |-> fn, args |-> args, result |-> result ]

\* storage.initialize_job_status(job_id, ...)
CallInitialize(job_id) ==
    LET folder_name == << << "A" >>, job_id >>
    IN  /\ job_status' = initialize_job_status(job_status, job_id, << "A" >>, folder_name, 1)
        /\ call' = Called("initialize_job_status", << job_id >>, Returned(None))
        /\ UNCHANGED << active_jobs, disk, now, next_uuid, handler, tasks, lock >>

\* storage.update_job_status(job_id, ...), while no counter goes past MaxCount
CallUpdate(job_id, status, increment_completed, increment_successful, increment_failed) ==
    LET after == update_job_status(job_status, job_id, status, increment_completed,
                                   increment_successful, increment_failed)
    IN  /\ \A j \in DOMAIN after :
              /\ after[j].progress.completed <= MaxCount
              /\ after[j].progress.successful <= MaxCount
              /\ after[j].progress.failed <= MaxCount
        /\ job_status' = after
        /\ call' = Called("update_job_status", << job_id, status >>, Returned(None))
        /\ UNCHANGED << active_jobs, disk, now, next_uuid, handler, tasks, lock >>

\* storage.get_folder_by_job_id(job_id)
CallGetFolder(job_id) ==
    /\ \E folder_name \in get_folder_by_job_id(job_id) :
         call' = Called("get_folder_by_job_id", << job_id >>, Returned(folder_name))
    /\ UNCHANGED << active_jobs, job_status, disk, now, next_uuid, handler, tasks, lock >>

\* storage.list_all_summaries()
CallListAll ==
    /\ call' = Called("list_all_summaries", << >>, list_all_summaries)
    /\ UNCHANGED << active_jobs, job_status, disk, now, next_uuid, handler, tasks, lock >>

\* service.send_email(...)
CallSendEmail(files, outcomes) ==
    /\ call' = Called("send_email", << files, outcomes >>, send_email(files, outcomes))
    /\ UNCHANGED << active_jobs, job_status, disk, now, next_uuid, handler, tasks, lock >>

NextCalls ==
    \/ \E job_id \in TrackedIds : CallInitialize(job_id)
    \/ \E job_id \in CallIds, status \in { None, Some("processing") },
          increment_completed \in BOOLEAN, increment_successful \in BOOLEAN,
          increment_failed \in BOOLEAN :
            CallUpdate(job_id, status, increment_completed, increment_successful,
                       increment_failed)
    \/ \E job_id \in CallIds : CallGetFolder(job_id)
    \/ CallListAll
    \/ \E files \in MailFiles, outcomes \in [ 1..MAX_RETRIES -> SmtpOutcomes ] :
          CallSendEmail(files, outcomes)

\* Direct calls of storage and mailer functions, one after the other.
SpecCalls == InitCalls /\ [][NextCalls]_vars

\* ------------------------------------------- a summary rewritten while it is read
\* The thread that calls storage.write_summary directly.
Writer == 0

\* The jobs folder of two earlier jobs, each with a whole summary.json.
InitRewrite ==
    /\ lock = None
    /\ call = NoCall
    /\ active_jobs = EmptyDict
    /\ job_status = EmptyDict
    /\ disk = [ f \in { OldFolder, OlderFolder } |->
                  IF f = OldFolder THEN SummaryOf(OldFolder, 0, 2)
                                   ELSE SummaryOf(OlderFolder, 9, 1) ]
    /\ now = 0
    /\ next_uuid = 1
    /\ handler = IdleHandler
    /\ tasks = EmptyDict

\* The member lists a rewrite hands over: none yet, one sent, one failed.
RewriteMembers ==
    LET result == PendingResult(Member("m1"))
    IN  { << >>, << Sent(result, certificate_url(OldFolder, Member("m1"))) >>,
          << ConversionFailed(result) >> }

\* write_summary, lines 167-168: the lock is taken and open(summary_path, "w") leaves
\* the file of the folder empty.
WriteOpen(folder_name, members, status) ==
    /\ Writer \notin DOMAIN tasks
    /\ folder_name \in DOMAIN disk
    /\ disk[folder_name] # Malformed
    /\ WithLock(lock' = lock_enter(Writer))
    /\ disk' = DictSet(disk, folder_name, Malformed)
    /\ tasks' = DictSet(tasks, Writer,
                        [ pc |-> "dump",
                          arguments |->
                            [ folder_name  |-> folder_name,
                              job_id       |-> disk[folder_name].job_id,
                              event_name   |-> disk[folder_name].event_name,
                              members      |-> members,
                              status       |-> status,
                              created_at   |-> disk[folder_name].created_at,
                              completed_at |-> IF status = "processing"
                                               THEN None ELSE Some(3) ] ])
    /\ UNCHANGED << active_jobs, job_status, now, next_uuid, handler, call >>

\* write_summary, line 169: json.dump(summary_data, f) is through, the file is closed
\* and the lock given back.
WriteDump ==
    /\ Writer \in DOMAIN tasks
    /\ lock = Some(Writer)
    /\ disk' = write_summary_call(disk, tasks[Writer].arguments)
    /\ lock' = lock_exit(Writer)
    /\ tasks' = DictPop(tasks, Writer)
    /\ UNCHANGED << active_jobs, job_status, now, next_uuid, handler, call >>

\* storage.read_summary(folder_name); it takes no lock.
CallReadSummary(folder_name) ==
    /\ call' = Called("read_summary", << folder_name >>, read_summary(folder_name))
    /\ UNCHANGED << active_jobs, job_status, disk, now, next_uuid, handler, tasks, lock >>

\* The job ids of the two earlier jobs.
RewriteIds == { 0, 9 }

NextRewrite ==
    \/ \E folder_name \in { OldFolder, OlderFolder }, members \in RewriteMembers,
          status \in { "processing", "completed" } : WriteOpen(folder_name, members, status)
    \/ WriteDump
    \/ \E folder_name \in { OldFolder, OlderFolder } : CallReadSummary(folder_name)
    \/ \E job_id \in RewriteIds : CallGetFolder(job_id)
    \/ CallListAll

\* The runs of direct write_summary calls beside direct reads of the summaries.
SpecRewrite == InitRewrite /\ [][NextRewrite]_vars

\* ------------------------------------------------------------------ claims
TerminalStatuses == { "completed", "failed" }

\* The runner of job j has returned or raised.
RunnerExited(j) == j \in DOMAIN tasks /\ tasks[j].pc \in { "done", "raised" }

\* Job j was created (it has a uuid), has no final status, and its runner has neither
\* returned nor raised.
Unfinished(j) ==
    /\ j < next_uuid
    /\ ~RunnerExited(j)
    /\ j \in DOMAIN job_status => job_status[j].status \notin TerminalStatuses

\* The registry key job j was registered under.
KeyOf(j) == IF j \in DOMAIN job_status THEN job_status[j].event_name ELSE handler.key

HoldsEntry(j) == get_active_job_id(KeyOf(j)) = Some(j)

Progress(j) == job_status[j].progress

\* C1: at most one admitted, not yet finished job exists per registry key.
C1_OneUnfinishedJobPerKey ==
    \A j1, j2 \in JobIds :
        (Unfinished(j1) /\ Unfinished(j2) /\ KeyOf(j1) = KeyOf(j2)) => j1 = j2

\* C2: on every exit path of process_certificates_job the job's registry entry has
\* been removed: no runner returns or raises with its entry still in place.
C2_ExitRemovesEntry == \A j \in JobIds : RunnerExited(j) => ~HoldsEntry(j)

\* C3: once the runner of a job has set a final status and passed its release step,
\* the key the job was admitted under is free again.
C3_FinalStatusFreesKey ==
    \A j \in DOMAIN tasks :
        ( /\ job_status[j].status \in TerminalStatuses
          /\ tasks[j].pc \in { "final_write", "done", "raised" } ) => ~HoldsEntry(j)

\* C4: a step of the runner of one job never inserts, changes or removes the registry
\* entry of a key other than the one its job was admitted under.
C4_RunnerKeepsToItsKey ==
    [][ \A j \in DOMAIN tasks :
          tasks'[j].pc # tasks[j].pc =>
            \A k \in (DOMAIN active_jobs \cup DOMAIN active_jobs') \ { KeyOf(j) } :
                get_active_job_id(k)' = get_active_job_id(k) ]_vars

\* C5: a job's tracker status is pending from initialization until its runner starts,
\* moves only pending -> processing -> completed or failed, and never leaves
\* completed or failed.
C5_StatusLifecycle ==
    /\ [](\A j \in DOMAIN job_status :
            job_status[j].status = "pending" <=> (j \notin DOMAIN tasks \/ tasks[j].pc = "queued"))
    /\ [][ \A j \in DOMAIN job_status' :
             IF j \notin DOMAIN job_status
             THEN job_status'[j].status = "pending"
             ELSE \/ job_status'[j].status = job_status[j].status
                  \/ << job_status[j].status, job_status'[j].status >> \in
                        { << "pending", "processing" >>,
                          << "processing", "completed" >>,
                          << "processing", "failed" >> } ]_vars

\* C5 witness: a job reached a final status and its runner took further steps.
C5_Witness ==
    \E j \in DOMAIN tasks :
        job_status[j].status \in TerminalStatuses /\ tasks[j].pc = "raised"

C7_FinalStatusByResults ==
    \A j \in JobIds :
        (RunnerExited(j) /\ Progress(j).total >= 1) =>
            job_status[j].status =
                IF Progress(j).successful >= 1 THEN "completed" ELSE "failed"

\* C8: a runner that recorded a failed member still goes through all members
\* and reaches finalization: it never raises in the loop.
C8_MemberFailureKeepsRunGoing ==
    \A j \in JobIds :
        (RunnerExited(j) /\ Progress(j).failed >= 1) =>
            /\ tasks[j].raised_at # "write"
            /\ job_status[j].status \in TerminalStatuses
            /\ Progress(j).completed = Progress(j).total

\* C9: with a final status in the tracker, completed = total = the number of input
\* members and successful + failed = completed; when the runner is over, the summary
\* on disk is the job's and its total_members is the number of input members.
C9_TotalsAtCompletion ==
    \A j \in DOMAIN tasks :
        job_status[j].status \in TerminalStatuses =>
            /\ Progress(j).completed = Progress(j).total
            /\ Progress(j).successful + Progress(j).failed = Progress(j).completed
            /\ ~RunnerExited(j) => Progress(j).total = Len(tasks[j].members)
            /\ RunnerExited(j) =>
                 /\ job_status[j].folder_name \in DOMAIN disk
                 /\ disk[job_status[j].folder_name].job_id = j
                 /\ disk[job_status[j].folder_name].total_members = Progress(j).total

\* C10: whenever a runner is between two members or past the last one, the summary
\* on disk holds all results accumulated so far; at any moment it lacks at most the
\* member completed last.
C10_SummaryAfterEveryMember ==
    \A j \in DOMAIN tasks :
        LET t == tasks[j]
            written == IF t.folder_name \in DOMAIN disk
                       THEN disk[t.folder_name].members ELSE << >>
        IN  ~RunnerExited(j) =>
              /\ Len(t.member_results) - Len(written) <= 1
              /\ (t.pc # "write" /\ t.member_results # << >>) => written = t.member_results

\* The names of the first n input members of a runner.
InputNames(t, n) == [ k \in 1..n |-> t.members[k].name ]

ResultNames(results) == [ k \in 1..Len(results) |-> results[k].name ]

\* C11: the result list of a running job, and the member list of every summary the
\* job wrote, name the first input members in input order, whatever their statuses;
\* a step of the runner leaves the list alone or appends one result to it.
C11_ResultsInInputOrder ==
    /\ [](\A j \in DOMAIN tasks :
            LET t == tasks[j]
            IN  ~RunnerExited(j) =>
                  /\ Len(t.member_results) <= Len(t.members)
                  /\ ResultNames(t.member_results) = InputNames(t, Len(t.member_results))
                  /\ (t.folder_name \in DOMAIN disk /\ disk[t.folder_name] # Malformed) =>
                        LET written == disk[t.folder_name].members
                        IN  /\ Len(written) <= Len(t.member_results)
                            /\ written = SubSeq(t.member_results, 1, Len(written)))
    /\ [][ \A j \in DOMAIN tasks :
             ~RunnerExited(j)' =>
               LET old == tasks[j].member_results
                   new == tasks'[j].member_results
               IN  \/ new = old
                   \/ Len(new) = Len(old) + 1 /\ SubSeq(new, 1, Len(old)) = old ]_vars

\* C11 witness: a runner holds three results, sent and failed ones among them.
C11_Witness ==
    \E j \in DOMAIN tasks :
        LET r == tasks[j].member_results
        IN  /\ Len(r) >= 3
            /\ \E k \in DOMAIN r : r[k].status = "sent"
            /\ \E k \in DOMAIN r : r[k].status = "failed"

MailerMessage == "Failed after 3 attempts"

ExceptionText == "str(e)"

\* C12: the result a step of the runner appends is the one its branch gives: a render
\* exception gives failed with the exception text and no certificate_url, a failed
\* conversion gives failed with "PDF conversion failed" and no certificate_url, a
\* send failure gives failed with the mailer's message and the certificate_url, a
\* sent member has sent_at and the certificate_url under the job folder; sent_at is
\* set for sent members only.
C12_ResultByOutcome ==
    [][ \A j \in DOMAIN tasks :
          LET t   == tasks[j]
              new == tasks'[j].member_results
          IN  (~RunnerExited(j)' /\ Len(new) = Len(t.member_results) + 1) =>
                LET r   == new[Len(new)]
                    url == Some(<< "certificates", t.folder_name, t.members[t.i].name >>)
                IN  /\ r.name = t.members[t.i].name
                    /\ r.status \in { "sent", "failed" }
                    /\ r.sent_at # None <=> r.status = "sent"
                    /\ t.pc = "render" =>
                          /\ r.status = "failed" /\ r.error = Some(ExceptionText)
                          /\ r.certificate_url = None
                    /\ (t.pc = "convert" /\ tasks'[j].pc # "write") =>
                          /\ r.status = "failed" /\ r.error = Some("PDF conversion failed")
                          /\ r.certificate_url = None
                    /\ (t.pc = "send" /\ r.status = "failed" /\ r.error = Some(MailerMessage)) =>
                          r.certificate_url = url
                    /\ (t.pc = "send" /\ r.status = "failed") =>
                          r.error \in { Some(MailerMessage), Some(ExceptionText) }
                    /\ r.status = "sent" =>
                          /\ t.pc = "send" /\ r.error = None /\ r.certificate_url = url ]_vars

\* C12 witness: a runner recorded a member whose send failed.
C12_Witness ==
    \E j \in DOMAIN tasks :
        \E k \in DOMAIN tasks[j].member_results :
            LET r == tasks[j].member_results[k]
            IN  r.status = "failed" /\ r.error = Some(MailerMessage)

\* C13: a job whose runner is over with status completed or failed in the tracker has
\* a summary on disk with that status, completed_at set, and successful and failed
\* equal to the tracker's counts of sent and failed members.
C13_TerminalSummaryDurable ==
    \A j \in DOMAIN tasks :
        (RunnerExited(j) /\ job_status[j].status \in TerminalStatuses) =>
            LET f == job_status[j].folder_name
            IN  /\ f \in DOMAIN disk
                /\ disk[f] # Malformed
                /\ disk[f].status = job_status[j].status
                /\ disk[f].completed_at # None
                /\ disk[f].successful = Progress(j).successful
                /\ disk[f].failed = Progress(j).failed

\* C14: no runner is ended by its per-member summary write: a write that raises is
\* followed by the next member.
C14_WriteFailureKeepsRunGoing ==
    \A j \in DOMAIN tasks : ~(tasks[j].pc = "raised" /\ tasks[j].raised_at = "write")

\* A status query has been answered with a JobStatusResponse.
StatusAnswered ==
    handler.pc = "answered" /\ handler.endpoint = "status" /\ handler.response # None

\* C15: the progress a status query reports always has successful + failed = completed.
C15_QueryProgressConsistent ==
    StatusAnswered =>
        LET p == handler.response[1].progress
        IN  p.successful + p.failed = p.completed

\* C16: a 409 answer to a create request always names a job: the reported job id is
\* never None.
C16_ConflictNamesJob ==
    (handler.pc = "answered" /\ handler.code = 409) => handler.active_job_id # None

\* C17: two unfinished jobs never have the same folder name.
C17_ActiveFoldersDiffer ==
    \A j1, j2 \in DOMAIN job_status :
        (j1 # j2 /\ Unfinished(j1) /\ Unfinished(j2)) =>
            job_status[j1].folder_name # job_status[j2].folder_name

\* A summary query for folder f has been answered.
SummaryAnswered(f) ==
    handler.pc = "answered" /\ handler.endpoint = "summary" /\ handler.query_folder = Some(f)

\* C18: reading a folder whose summary.json write_summary wrote gives a summary with
\* the status, the counters and the member list, in order, of the written one.
C18_ReadGivesWhatWasWritten ==
    \A f \in DOMAIN disk :
        (SummaryAnswered(f) /\ disk[f] # Malformed) =>
            /\ handler.code = 200
            /\ handler.response # None
            /\ handler.response[1].status = disk[f].status
            /\ handler.response[1].total_members = disk[f].total_members
            /\ handler.response[1].successful = disk[f].successful
            /\ handler.response[1].failed = disk[f].failed
            /\ handler.response[1].members = disk[f].members

\* C19: read_summary returns None without raising when summary.json is absent and when
\* it is malformed: the summary query is then answered 404, not 500.
C19_ReadOfBadFileGivesNone ==
    \A f \in QueryFolders :
        (SummaryAnswered(f) /\ (f \notin DOMAIN disk \/ disk[f] = Malformed)) =>
            handler.code = 404

\* The folders whose summary parses and carries job id q.
SummariesOf(q) == { f \in DOMAIN disk : disk[f] # Malformed /\ disk[f].job_id = q }

\* C20: an answered status query gives the tracker's status when the tracker holds the
\* job, else the status of a summary on disk with the job's id, else 404; never 500.
C20_StatusQueryAnswer ==
    (handler.pc = "answered" /\ handler.endpoint = "status") =>
        LET q == handler.query_job[1]
        IN  /\ handler.code # 500
            /\ q \in DOMAIN job_status => handler.code = 200
            /\ (q \notin DOMAIN job_status /\ SummariesOf(q) # {}) =>
                 /\ handler.code = 200
                 /\ \E f \in SummariesOf(q) : handler.response[1].status = disk[f].status
            /\ (q \notin DOMAIN job_status /\ SummariesOf(q) = {}) => handler.code = 404

\* C21: a create request is sent to the conflict answer only when its own registry key
\* is registered, by a job admitted under that key: a job of another event name never
\* gets a request denied.
C21_OtherNamesNotDenied ==
    [][ (handler.pc = "idle" /\ handler'.pc = "conflict") =>
          /\ handler'.key \in DOMAIN active_jobs
          /\ job_status[active_jobs[handler'.key]].event_name = handler'.key ]_vars

\* C21 witness: the runners of two jobs admitted for different event names are both
\* in status processing.
C21_Witness ==
    \E j1, j2 \in DOMAIN tasks :
        /\ ~RunnerExited(j1) /\ ~RunnerExited(j2)
        /\ tasks[j1].event_name # tasks[j2].event_name
        /\ job_status[j1].status = "processing"
        /\ job_status[j2].status = "processing"

\* C25: every job in the tracker has a total of at least 1, and the member list its
\* runner was handed has at least one member.
C25_NoEmptyJob ==
    /\ \A j \in DOMAIN job_status : Progress(j).total >= 1
    /\ \A j \in DOMAIN tasks : ~RunnerExited(j) => Len(tasks[j].members) >= 1

\* C25 witness: a request with an empty member list was answered 422, and no job
\* was created for it.
C25_Witness ==
    /\ handler.pc = "answered" /\ handler.code = 422
    /\ handler.members = << >> /\ handler.job_id = 0

\* C26: in a runner the converter is called only on return of the renderer for the
\* same member, the mailer only on return of the converter with a PDF for the same
\* member, and the renderer only for the member after the last one handled: each
\* call is made at most once per member, and a failed member is not taken up again.
C26_RenderConvertSend ==
    [][ \A j \in DOMAIN tasks :
          LET t == tasks[j]
              u == tasks'[j]
          IN  (u # t /\ ~RunnerExited(j)') =>
                /\ u.pc = "convert" => (t.pc = "render" /\ u.i = t.i)
                /\ u.pc = "send" => (t.pc = "convert" /\ u.i = t.i)
                /\ u.pc = "render" =>
                     /\ t.pc \in { "queued", "convert", "write" }
                     /\ u.i = IF t.pc = "queued" THEN 1 ELSE t.i + 1
                /\ u.pc \in { "write", "finalize" } => u.i >= t.i
                /\ Len(u.member_results) > Len(t.member_results) =>
                     u.pc \notin { "convert", "send" } ]_vars

\* C26 witness: a runner is at the mailer call of a later member, after an earlier
\* member failed.
C26_Witness ==
    \E j \in DOMAIN tasks :
        /\ tasks[j].pc = "send" /\ tasks[j].i >= 2
        /\ tasks[j].member_results[1].status = "failed"

\* C30: every job whose tracker status is pending or processing holds the registry
\* entry of the key it was admitted under, mapped to its own job id.
C30_RunningJobHoldsEntry ==
    \A j \in DOMAIN job_status :
        job_status[j].status \in { "pending", "processing" } => HoldsEntry(j)

\* C24: a runner that was handed an empty member list sets the final status completed.
C24_EmptyListCompletes ==
    \A j \in DOMAIN job_status :
        (Progress(j).total = 0 /\ job_status[j].status \in TerminalStatuses) =>
            job_status[j].status = "completed"

\* C23: an update_job_status call for a job id the tracker does not hold leaves the
\* tracker as it was and returns without raising.
C23_UnknownJobIsNoOp ==
    [][ (call'.fn = "update_job_status" /\ call'.args[1] \notin DOMAIN job_status) =>
          /\ job_status' = job_status
          /\ call'.result = Returned(None) ]_vars

\* C23 witness: update_job_status was called for an unknown job id while the tracker
\* holds another job.
C23_Witness ==
    /\ call.fn = "update_job_status"
    /\ call.args[1] \notin DOMAIN job_status
    /\ job_status # EmptyDict

\* The SMTP attempts that send the message.
Sending(outcomes) == { k \in 1..MAX_RETRIES : outcomes[k] = "sent" }

\* C27: send_email makes at most max_retries attempts; with a file missing it makes
\* none and returns failure with a message; else it returns success at the first
\* attempt that sends and makes no further one, and returns failure with a message
\* after max_retries attempts when none sends.
C27_SendEmailBounded ==
    call.fn = "send_email" =>
        LET files    == call.args[1]
            outcomes == call.args[2]
            r        == call.result
        IN  /\ r.attempts <= MAX_RETRIES
            /\ r.sleeps <= MAX_RETRIES - 1
            /\ files # "present" => (~r.success /\ r.attempts = 0 /\ r.error # None)
            /\ (files = "present" /\ Sending(outcomes) # {}) =>
                 /\ r.success /\ r.error = None
                 /\ r.attempts \in Sending(outcomes)
                 /\ \A k \in Sending(outcomes) : r.attempts <= k
            /\ (files = "present" /\ Sending(outcomes) = {}) =>
                 (~r.success /\ r.attempts = MAX_RETRIES /\ r.error # None)

\* C27 witness: send_email returned success at its second attempt.
C27_Witness ==
    call.fn = "send_email" /\ call.result.success /\ call.result.attempts = 2

\* C28: list_all_summaries returns without raising, one item per folder with a
\* well-formed summary, newest first.
C28_ListAllSummaries ==
    call.fn = "list_all_summaries" =>
        LET parsed == { f \in DOMAIN disk : disk[f] # Malformed }
            r      == call.result
        IN  /\ r.raised = ""
            /\ Len(r.value) = Cardinality(parsed)
            /\ { r.value[k].folder_name : k \in DOMAIN r.value } = parsed
            /\ \A k \in 1..(Len(r.value) - 1) :
                   r.value[k].created_at >= r.value[k + 1].created_at

\* C29: get_folder_by_job_id returns the tracker's folder name when the tracker holds
\* the job id, whatever the summaries say; else a folder whose summary carries the
\* job id; else None.
C29_FolderByJobId ==
    call.fn = "get_folder_by_job_id" =>
        LET q == call.args[1]
            r == call.result
        IN  /\ r.raised = ""
            /\ q \in DOMAIN job_status => r.value = Some(job_status[q].folder_name)
            /\ (q \notin DOMAIN job_status /\ SummariesOf(q) # {}) =>
                 r.value \in { Some(f) : f \in SummariesOf(q) }
            /\ (q \notin DOMAIN job_status /\ SummariesOf(q) = {}) => r.value = None

\* C29 witness: the tracker's folder was returned for a job id that a summary in
\* another folder carries too.
C29_Witness ==
    /\ call.fn = "get_folder_by_job_id"
    /\ call.args[1] \in DOMAIN job_status
    /\ SummariesOf(call.args[1]) # {}
    /\ call.result.value[1] \notin SummariesOf(call.args[1])

ExternalCalls == { "render", "convert", "send" }

\* C22: a runner that is inside a call of the renderer, the converter or the mailer
\* does not hold storage._lock, and a runner that holds the lock gives it back with
\* its next step.
C22_NoLockAcrossExternalCall ==
    /\ [](\A j \in DOMAIN tasks : lock = Some(j) => tasks[j].pc \notin ExternalCalls)
    /\ [][ \A j \in DOMAIN tasks :
             (lock = Some(j) /\ tasks'[j] # tasks[j]) => lock' = None ]_vars

\* C22 witness: one runner is inside update_job_status, holding the lock, while
\* another is inside an external call.
C22_Witness ==
    \E j1, j2 \in DOMAIN tasks :
        lock = Some(j1) /\ j2 # j1 /\ tasks[j2].pc \in ExternalCalls

\* C31: two distinct jobs never have the same folder name.
C31_FoldersDiffer ==
    \A j1, j2 \in DOMAIN job_status :
        j1 # j2 => job_status[j1].folder_name # job_status[j2].folder_name

\* Job j was admitted by the test endpoint.
IsTestJob(j) == job_status[j].event_name = test_event_name(tasks[j].event_name)

TestNames == { TEST_RECIPIENTS[k].name : k \in 1..3 }

IsOriginal(member) == member.name \notin TestNames

C34_NoPendingResult ==
    /\ \A j \in DOMAIN tasks :
         LET t == tasks[j]
             s == write_summary(EmptyDict, t.folder_name, j, t.event_name, t.member_results,
                                "processing", t.created_at, None)[t.folder_name]
         IN  /\ \A k \in DOMAIN t.member_results :
                   t.member_results[k].status \in { "sent", "failed" }
             /\ s.successful + s.failed = s.total_members
    /\ \A f \in DOMAIN disk :
         disk[f] # Malformed => disk[f].successful + disk[f].failed = disk[f].total_members

\* C34 witness: a runner's list holds a member whose step raised, after a member
\* whose conversion failed.
C34_Witness ==
    \E j \in DOMAIN tasks :
        LET r == tasks[j].member_results
        IN  /\ Len(r) >= 2
            /\ r[Len(r)].error = Some(ExceptionText)

\* The summary write_summary makes of the values runner j hands it at its next call.
NextSummary(j) ==
    LET t == tasks[j]
        arguments == IF t.pc = "write" THEN member_write_arguments(t)
                                       ELSE final_write_arguments(t)
    IN  write_summary_call(EmptyDict, arguments)[t.folder_name]

AtWrite(j) == j \in DOMAIN tasks /\ tasks[j].pc \in { "write", "final_write" }

\* C35: at each of a runner's write_summary calls, the summary made of the values it
\* hands over has the tracker's successful and failed counters of the job, and the
\* tracker's completed as its total_members.
C35_SummaryCountsAreTrackerCounts ==
    \A j \in DOMAIN tasks :
        AtWrite(j) =>
            /\ NextSummary(j).successful = Progress(j).successful
            /\ NextSummary(j).failed = Progress(j).failed
            /\ NextSummary(j).total_members = Progress(j).completed

\* C35 witness: a runner is at the call after a member, with a member whose
\* conversion failed and the member after it in the list.
C35_Witness ==
    \E j \in DOMAIN tasks :
        /\ tasks[j].pc = "write"
        /\ NextSummary(j).total_members >= 2
        /\ NextSummary(j).failed >= 1

WrittenRight(s) == (s.completed_at # None) <=> (s.status \in { "completed", "failed" })

\* C36: the summary of a call after a member has status processing and no
\* completed_at, the summary of the final call has status completed or failed and a
\* completed_at, every summary on disk has a completed_at exactly when its status is
\* completed or failed, and a runner at or past its final call makes no call after a
\* member again.
C36_CompletedAtWithTerminalStatus ==
    /\ [](\A j \in DOMAIN tasks :
            /\ AtWrite(j) => WrittenRight(NextSummary(j))
            /\ tasks[j].pc = "write" =>
                 NextSummary(j).status = "processing" /\ NextSummary(j).completed_at = None
            /\ tasks[j].pc = "final_write" =>
                 NextSummary(j).status \in { "completed", "failed" })
    /\ [](\A f \in DOMAIN disk : disk[f] # Malformed => WrittenRight(disk[f]))
    /\ [][\A j \in DOMAIN tasks :
            tasks[j].pc \in { "final_write", "done", "raised" } => tasks'[j].pc # "write"]_vars

\* C36 witness: a runner is at its final call with the final status failed.
C36_Witness ==
    \E j \in DOMAIN tasks :
        tasks[j].pc = "final_write" /\ NextSummary(j).status = "failed"

\* C32: a read beside a rewrite sees a whole summary.json: read_summary of a folder
\* with a summary does not raise JSONDecodeError, get_folder_by_job_id finds the
\* folder of a job whose summary is in the jobs folder, and list_all_summaries
\* leaves out no summary.
C32_ReadSeesWholeSummary ==
    /\ call.fn = "read_summary" => call.result.raised # "JSONDecodeError"
    /\ call.fn = "get_folder_by_job_id" => call.result.value # None
    /\ call.fn = "list_all_summaries" => call.result # Returned(<< >>)

====
